---- MODULE Spec2Model ----
(***************************************************************************)
(* Model of discrete-graphic-disabler.c: a kernel module that powers the   *)
(* discrete graphics device off when loaded, powers it on again around a   *)
(* system sleep and when unloaded.                                         *)
(*                                                                         *)
(* One action models one entry point run to completion: module init,      *)
(* one invocation of the PM notifier, module exit.  The environment can   *)
(* bind or unbind a driver to the discrete device between entry points.   *)
(* The hardware power state changes only through the _ON/_OFF firmware    *)
(* methods; a firmware call may fail silently (its status is not read).   *)
(***************************************************************************)
EXTENDS Integers, Sequences, FiniteSets, TLC

\* ------------------------------------------------------------------ bounds
\* Longest PCI enumeration explored.
MaxDevs == 2

\* Longest PCI enumeration explored when only discovery is looked at.
MaxScan == 3

\* --------------------------------------------------------------- constants
GPU_UNCHANGED == -1
GPU_DISABLE == 0
GPU_ENABLE == 1

NULL == 0

\* pdev->class >> 8 of the three display classes the scan accepts.
PCI_CLASS_DISPLAY_VGA == 768
PCI_CLASS_DISPLAY_3D == 770
PCI_CLASS_DISPLAY_OTHER == 896

PCI_VENDOR_ID_INTEL == 32902
PCI_VENDOR_ID_NVIDIA == 4318

\* A configuration dword is kept as its two 16-bit halves.
HalfOnes == 65535

\* device_vendor before a device is found (0xffff).
VendorUnset == 65535

\* The PM events the notifier chain delivers.
PrepareEvents == {"PM_HIBERNATION_PREPARE", "PM_SUSPEND_PREPARE"}
PostEvents == {"PM_POST_HIBERNATION", "PM_POST_SUSPEND", "PM_POST_RESTORE"}
PmEvents == PrepareEvents \cup PostEvents \cup {"PM_RESTORE_PREPARE"}

Dev(class, vendor, acpi) == [class |-> class, vendor |-> vendor, acpi |-> acpi]

\* The PCI devices enumerations are made of, as the scan sees them; acpi says
\* whether the device has an ACPI companion (DEVICE_ACPI_HANDLE non-NULL):
\* an integrated VGA device, a discrete device of each display class, a
\* discrete device without ACPI companion, and a network controller
\* (class 0x020000), which is no display.
PciDevs ==
  {Dev(PCI_CLASS_DISPLAY_VGA * 256, PCI_VENDOR_ID_INTEL, TRUE),
   Dev(PCI_CLASS_DISPLAY_VGA * 256, PCI_VENDOR_ID_NVIDIA, TRUE),
   Dev(PCI_CLASS_DISPLAY_3D * 256, PCI_VENDOR_ID_NVIDIA, TRUE),
   Dev(PCI_CLASS_DISPLAY_OTHER * 256, PCI_VENDOR_ID_NVIDIA, TRUE),
   Dev(PCI_CLASS_DISPLAY_VGA * 256, PCI_VENDOR_ID_NVIDIA, FALSE),
   Dev(131072, PCI_VENDOR_ID_INTEL, TRUE)}

RECURSIVE SeqsUpTo(_, _)
SeqsUpTo(S, n) ==
  IF n = 0 THEN {<< >>}
  ELSE LET shorter == SeqsUpTo(S, n - 1)
       IN  shorter \cup {Append(s, x) : s \in {t \in shorter : Len(t) = n - 1}, x \in S}

Enumerations == SeqsUpTo(PciDevs, MaxDevs)

VARIABLES
  phase,               \* "start", "loaded", "failed" (init returned -ENODEV), "exited"
  devices,             \* what pci_get_device enumerates, in order
  hasParent,           \* dis_dev->bus && dis_dev->bus->self
  powered,             \* true power state of the discrete device
  driver,              \* dis_dev->driver != NULL
  dis_dev,             \* index into devices, NULL if none
  dis_handle,          \* ACPI handle of dis_dev, NULL if none
  device_vendor,
  discrete_state,
  load_discrete_state,
  nb_call,             \* nb.notifier_call is set
  registered,          \* nb is on the PM notifier chain
  usage,               \* runtime-PM references this module holds on the parent bridge
  fwFailed,            \* some firmware call so far did not take effect
  oops,                \* the notifier chain called into the unloaded module and faulted
  initRefused,         \* the discrete_off made by init was refused
  lastFw,              \* the most recent firmware call: "none", "_OFF" or "_ON"
  fwOrderBroken,       \* some firmware call repeated the kind of the one before it,
                       \* or the first one was _ON
  last,                \* what the most recent entry point did
  prev                 \* name and entry state of the entry point before it

vars ==
  <<phase, devices, hasParent, powered, driver, dis_dev, dis_handle,
    device_vendor, discrete_state, load_discrete_state, nb_call, registered,
    usage, fwFailed, oops, initRefused, lastFw, fwOrderBroken, last, prev>>

\* ---------------------------------------------------------------- traces
\* The record of one entry point: its name, how often it entered
\* discrete_off / discrete_on, the firmware calls and guard operations it
\* made, discrete_state and the power state on entry, the configuration
\* reads it made, and what discrete_off saw.
NoTrace(n, before) ==
  [name |-> n, before |-> before, pwBefore |-> powered,
   offInv |-> 0, onInv |-> 0, reads |-> 0,
   fwOff |-> 0, fwOn |-> 0, gets |-> 0, puts |-> 0,
   claimed |-> FALSE, refused |-> FALSE, bare |-> FALSE]

\* The state an entry point works on, threaded through the calls it makes.
\* dev is the device dis_dev points to.
Machine(dev) ==
  [dev |-> dev, ds |-> discrete_state, pw |-> powered, us |-> usage,
   ff |-> fwFailed, lf |-> lastFw, bad |-> fwOrderBroken,
   tr |-> NoTrace("none", discrete_state)]

Enter(n, dev) == [Machine(dev) EXCEPT !.tr = NoTrace(n, discrete_state)]

\* ------------------------------------------------------------- primitives
\* pci_read_config_dword(dis_dev, 0, ..): vendor and device id of a powered
\* device, all ones of one that is off.  The enumeration index stands for
\* the device id.
ConfigWord(m) ==
  IF m.pw
  THEN [lo |-> devices[m.dev].vendor, hi |-> m.dev]
  ELSE [lo |-> HalfOnes, hi |-> HalfOnes]

\* ~cfg_word, halfwise.
Complement(w) == [lo |-> HalfOnes - w.lo, hi |-> HalfOnes - w.hi]

get_discrete_state(m) ==
  LET inv == Complement(ConfigWord(m))
  IN  IF inv.lo # 0 \/ inv.hi # 0 THEN GPU_ENABLE ELSE GPU_DISABLE

\* A configuration read or firmware call made while this module holds no
\* reference on an existing parent bridge is noted in the trace.
Access(m) ==
  IF hasParent /\ m.us = 0 THEN [m EXCEPT !.tr.bare = TRUE] ELSE m

\* The machine after one pci_read_config_dword of the discrete device.
Read(m) == [Access(m) EXCEPT !.tr.reads = @ + 1]

dis_dev_get(m) ==
  IF hasParent
  THEN [m EXCEPT !.us = @ + 1, !.tr.gets = @ + 1]
  ELSE m

dis_dev_put(m) ==
  IF hasParent
  THEN [m EXCEPT !.us = @ - 1, !.tr.puts = @ + 1]
  ELSE m

\* acpi_evaluate_object(dis_handle, "_OFF"/"_ON", ..): ok says whether the
\* firmware method took effect; the code does not read the status.
acpi_OFF(m, ok) ==
  [Access(m) EXCEPT !.tr.fwOff = @ + 1,
                    !.pw = IF ok THEN FALSE ELSE @,
                    !.ff = @ \/ ~ok,
                    !.bad = @ \/ m.lf = "_OFF",
                    !.lf = "_OFF"]

\* An _ON evaluation that never reaches the firmware.
acpi_ON_Dropped(m, ok) ==
  [Access(m) EXCEPT !.tr.fwOn = @ + 1,
                    !.bad = @ \/ m.lf # "_OFF",
                    !.lf = "_ON"]

acpi_ON(m, ok) ==
  [Access(m) EXCEPT !.tr.fwOn = @ + 1,
                    !.pw = IF ok THEN TRUE ELSE @,
                    !.ff = @ \/ ~ok,
                    !.bad = @ \/ m.lf # "_OFF",
                    !.lf = "_ON"]

\* ------------------------------------------------------------ transitions
\* discrete_off without the check of dis_dev->driver.
discrete_off_NoDriverCheck(m, ok) ==
  LET m1 == [Read(m) EXCEPT !.tr.offInv = @ + 1, !.tr.claimed = driver]
  IN  IF get_discrete_state(m1) = GPU_DISABLE THEN m1
      ELSE [acpi_OFF(m1, ok) EXCEPT !.ds = GPU_DISABLE]

\* discrete_off without the re-check of the hardware state.
discrete_off_NoRecheck(m, ok) ==
  LET m1 == [m EXCEPT !.tr.offInv = @ + 1, !.tr.claimed = driver]
  IN  IF driver THEN [m1 EXCEPT !.tr.refused = TRUE]
      ELSE [acpi_OFF(m1, ok) EXCEPT !.ds = GPU_DISABLE]

\* discrete_off recording GPU_ENABLE when it refuses.
discrete_off_RefusalSetsEnabled(m, ok) ==
  LET m1 == [Read(m) EXCEPT !.tr.offInv = @ + 1, !.tr.claimed = driver]
  IN  IF get_discrete_state(m1) = GPU_DISABLE THEN m1
      ELSE IF driver THEN [m1 EXCEPT !.tr.refused = TRUE, !.ds = GPU_ENABLE]
      ELSE [acpi_OFF(m1, ok) EXCEPT !.ds = GPU_DISABLE]

discrete_off(m, ok) ==
  LET m1 == [Read(m) EXCEPT !.tr.offInv = @ + 1, !.tr.claimed = driver]
  IN  IF get_discrete_state(m1) = GPU_DISABLE THEN m1
      ELSE IF driver THEN [m1 EXCEPT !.tr.refused = TRUE]
      ELSE [acpi_OFF(m1, ok) EXCEPT !.ds = GPU_DISABLE]

\* discrete_on without the assignment to discrete_state.
discrete_on_StateNotSet(m, ok) ==
  LET m1 == [Read(m) EXCEPT !.tr.onInv = @ + 1]
  IN  IF get_discrete_state(m1) = GPU_ENABLE THEN m1
      ELSE acpi_ON(m1, ok)

\* discrete_on testing the cached discrete_state instead of the hardware.
discrete_on_TrustsCache(m, ok) ==
  LET m1 == [m EXCEPT !.tr.onInv = @ + 1]
  IN  IF m1.ds = GPU_ENABLE THEN m1
      ELSE [acpi_ON(m1, ok) EXCEPT !.ds = GPU_ENABLE]

\* discrete_on without the re-check of the hardware state.
discrete_on_NoRecheck(m, ok) ==
  LET m1 == [m EXCEPT !.tr.onInv = @ + 1]
  IN  [acpi_ON(m1, ok) EXCEPT !.ds = GPU_ENABLE]

discrete_on(m, ok) ==
  LET m1 == [Read(m) EXCEPT !.tr.onInv = @ + 1]
  IN  IF get_discrete_state(m1) = GPU_ENABLE THEN m1
      ELSE [acpi_ON(m1, ok) EXCEPT !.ds = GPU_ENABLE]

\* --------------------------------------------------------------- handler
\* The handler with the PM_HIBERNATION_PREPARE case label left out.
discrete_pm_handler_NoHibernate(m, event_type, ok) ==
  IF event_type = "PM_SUSPEND_PREPARE"
  THEN IF load_discrete_state = GPU_ENABLE /\ m.ds = GPU_DISABLE
       THEN dis_dev_put(discrete_on(dis_dev_get(m), ok))
       ELSE m
  ELSE IF event_type \in PostEvents
  THEN IF load_discrete_state = GPU_ENABLE /\ m.ds = GPU_ENABLE
       THEN dis_dev_put(discrete_off(dis_dev_get(m), ok))
       ELSE m
  ELSE m

\* The handler with the post-sleep branch testing for GPU_DISABLE.
discrete_pm_handler_PostTestsDisable(m, event_type, ok) ==
  IF event_type \in PrepareEvents
  THEN IF load_discrete_state = GPU_ENABLE /\ m.ds = GPU_DISABLE
       THEN dis_dev_put(discrete_on(dis_dev_get(m), ok))
       ELSE m
  ELSE IF event_type \in PostEvents
  THEN IF load_discrete_state = GPU_ENABLE /\ m.ds = GPU_DISABLE
       THEN dis_dev_put(discrete_off(dis_dev_get(m), ok))
       ELSE m
  ELSE m

\* The handler releasing the guard after discrete_off only when the device
\* was turned off.
discrete_pm_handler_PutOnSuccess(m, event_type, ok) ==
  IF event_type \in PrepareEvents
  THEN IF load_discrete_state = GPU_ENABLE /\ m.ds = GPU_DISABLE
       THEN dis_dev_put(discrete_on(dis_dev_get(m), ok))
       ELSE m
  ELSE IF event_type \in PostEvents
  THEN IF load_discrete_state = GPU_ENABLE /\ m.ds = GPU_ENABLE
       THEN LET r == discrete_off(dis_dev_get(m), ok)
            IN  IF r.tr.refused THEN r ELSE dis_dev_put(r)
       ELSE m
  ELSE m

\* The handler calling discrete_on without taking the guard.
discrete_pm_handler_OnUnguarded(m, event_type, ok) ==
  IF event_type \in PrepareEvents
  THEN IF load_discrete_state = GPU_ENABLE /\ m.ds = GPU_DISABLE
       THEN discrete_on(m, ok)
       ELSE m
  ELSE IF event_type \in PostEvents
  THEN IF load_discrete_state = GPU_ENABLE /\ m.ds = GPU_ENABLE
       THEN dis_dev_put(discrete_off(dis_dev_get(m), ok))
       ELSE m
  ELSE m

\* The handler with PM_RESTORE_PREPARE falling into the pre-sleep branch.
discrete_pm_handler_RestoreFallsThrough(m, event_type, ok) ==
  IF event_type \in PrepareEvents \cup {"PM_RESTORE_PREPARE"}
  THEN IF load_discrete_state = GPU_ENABLE /\ m.ds = GPU_DISABLE
       THEN dis_dev_put(discrete_on(dis_dev_get(m), ok))
       ELSE m
  ELSE IF event_type \in PostEvents
  THEN IF load_discrete_state = GPU_ENABLE /\ m.ds = GPU_ENABLE
       THEN dis_dev_put(discrete_off(dis_dev_get(m), ok))
       ELSE m
  ELSE m

discrete_pm_handler(m, event_type, ok) ==
  IF event_type \in PrepareEvents
  THEN IF load_discrete_state = GPU_ENABLE /\ m.ds = GPU_DISABLE
       THEN dis_dev_put(discrete_on(dis_dev_get(m), ok))
       ELSE m
  ELSE IF event_type \in PostEvents
  THEN IF load_discrete_state = GPU_ENABLE /\ m.ds = GPU_ENABLE
       THEN dis_dev_put(discrete_off(dis_dev_get(m), ok))
       ELSE m
  ELSE m

\* ------------------------------------------------------------- discovery
IsDisplayClass(pci_class) ==
  \/ pci_class = PCI_CLASS_DISPLAY_VGA
  \/ pci_class = PCI_CLASS_DISPLAY_3D
  \/ pci_class = PCI_CLASS_DISPLAY_OTHER

\* DEVICE_ACPI_HANDLE(&pdev->dev): the handle of device i is i.
DEVICE_ACPI_HANDLE(devs, i) == IF devs[i].acpi THEN i ELSE NULL

NoneFound ==
  [igd_dev |-> NULL, igd_handle |-> NULL, dis_dev |-> NULL, dis_handle |-> NULL]

\* The while loop of init, from device i on, with the devices found so far.
RECURSIVE ScanFrom(_, _, _)
ScanFrom(devs, i, acc) ==
  IF i > Len(devs) THEN acc
  ELSE
    LET pci_class == devs[i].class \div 256
        handle == DEVICE_ACPI_HANDLE(devs, i)
    IN  IF ~IsDisplayClass(pci_class) THEN ScanFrom(devs, i + 1, acc)
        ELSE IF handle = NULL THEN ScanFrom(devs, i + 1, acc)
        ELSE
          LET acc2 ==
                IF devs[i].vendor = PCI_VENDOR_ID_INTEL
                THEN [acc EXCEPT !.igd_dev = i, !.igd_handle = handle]
                ELSE [acc EXCEPT !.dis_dev = i, !.dis_handle = handle]
          IN  IF acc2.igd_handle # NULL /\ acc2.dis_handle # NULL
              THEN acc2
              ELSE ScanFrom(devs, i + 1, acc2)

\* Variants of the loop: without the vendor test (every display device with
\* a handle is taken as the discrete one) when ~useVendor, without the break
\* at line 210 when ~useBreak.
RECURSIVE ScanVariant(_, _, _, _, _)
ScanVariant(devs, i, acc, useVendor, useBreak) ==
  IF i > Len(devs) THEN acc
  ELSE
    LET pci_class == devs[i].class \div 256
        handle == DEVICE_ACPI_HANDLE(devs, i)
    IN  IF ~IsDisplayClass(pci_class) \/ handle = NULL
        THEN ScanVariant(devs, i + 1, acc, useVendor, useBreak)
        ELSE
          LET acc2 ==
                IF useVendor /\ devs[i].vendor = PCI_VENDOR_ID_INTEL
                THEN [acc EXCEPT !.igd_dev = i, !.igd_handle = handle]
                ELSE [acc EXCEPT !.dis_dev = i, !.dis_handle = handle]
          IN  IF useBreak /\ acc2.igd_handle # NULL /\ acc2.dis_handle # NULL
              THEN acc2
              ELSE ScanVariant(devs, i + 1, acc2, useVendor, useBreak)

\* The scan without the test of pdev->vendor.
Scan_NoVendorTest(devs) == ScanVariant(devs, 1, NoneFound, FALSE, TRUE)

\* The scan without the break once both devices are found.
Scan_NoBreak(devs) == ScanVariant(devs, 1, NoneFound, TRUE, FALSE)

Scan(devs) == ScanFrom(devs, 1, NoneFound)

\* ------------------------------------------------------------------ Init
Init ==
  /\ phase = "start"
  /\ devices \in Enumerations
  /\ hasParent \in BOOLEAN
  /\ powered \in BOOLEAN
  /\ driver \in BOOLEAN
  /\ dis_dev = NULL
  /\ dis_handle = NULL
  /\ device_vendor = VendorUnset
  /\ discrete_state = GPU_UNCHANGED
  /\ load_discrete_state = GPU_UNCHANGED
  /\ nb_call = FALSE
  /\ registered = FALSE
  /\ usage = 0
  /\ fwFailed = FALSE
  /\ oops = FALSE
  /\ initRefused = FALSE
  /\ lastFw = "none"
  /\ fwOrderBroken = FALSE
  /\ last = NoTrace("none", GPU_UNCHANGED)
  /\ prev = [name |-> "none", before |-> GPU_UNCHANGED]

\* Writes the machine an entry point ended with back to the variables.
Commit(m) ==
  /\ discrete_state' = m.ds
  /\ powered' = m.pw
  /\ usage' = m.us
  /\ fwFailed' = m.ff
  /\ lastFw' = m.lf
  /\ fwOrderBroken' = m.bad
  /\ last' = m.tr
  /\ prev' = [name |-> last.name, before |-> last.before]

\* ------------------------------------------------------- module init
\* The part of init after a discrete device was found (dis_dev and
\* dis_handle already assigned): lines 226-243.
\* init that skips discrete_off and only registers the notifier.
InitBody_NoOff(m0, ok) ==
  LET m1 == Read(dis_dev_get(m0))
      ld == get_discrete_state(m1)
  IN  IF ld = GPU_DISABLE
      THEN [m |-> dis_dev_put(m1), load |-> ld, reg |-> FALSE]
      ELSE [m |-> dis_dev_put(m1), load |-> ld, reg |-> TRUE]

InitBody(m0, ok) ==
  LET m1 == Read(dis_dev_get(m0))
      ld == get_discrete_state(m1)
  IN  IF ld = GPU_DISABLE
      THEN [m |-> dis_dev_put(m1), load |-> ld, reg |-> FALSE]
      ELSE [m |-> dis_dev_put(discrete_off(m1, ok)), load |-> ld, reg |-> TRUE]

discrete_disabler_init ==
  /\ phase = "start"
  /\ LET found == Scan(devices)
     IN  /\ dis_dev' = found.dis_dev
         /\ dis_handle' = found.dis_handle
         /\ IF found.dis_dev = NULL
            THEN /\ phase' = "failed"
                 /\ Commit(Enter("init", NULL))
                 /\ UNCHANGED <<device_vendor, load_discrete_state, nb_call,
                                registered, initRefused>>
            ELSE \E ok \in BOOLEAN :
                   LET r == InitBody(Enter("init", found.dis_dev), ok)
                   IN  /\ phase' = "loaded"
                       /\ device_vendor' = devices[found.dis_dev].vendor
                       /\ load_discrete_state' = r.load
                       /\ nb_call' = r.reg
                       /\ registered' = r.reg
                       /\ initRefused' = r.m.tr.refused
                       /\ Commit(r.m)
  /\ UNCHANGED <<devices, hasParent, driver, oops>>

\* ------------------------------------------------------- PM notifier
\* The notifier chain calls the handler while nb is registered and the
\* module is loaded.
PmEvent ==
  /\ phase = "loaded"
  /\ registered
  /\ \E e \in PmEvents, ok \in BOOLEAN :
       Commit(discrete_pm_handler(Enter(e, dis_dev), e, ok))
  /\ UNCHANGED <<phase, devices, hasParent, driver, dis_dev, dis_handle,
                 device_vendor, load_discrete_state, nb_call, registered,
                 oops, initRefused>>

\* ------------------------------------------------------- module exit
\* The result of exit: the machine, and whether line 274 was reached.
\* exit that calls discrete_on without looking at discrete_state first.
ExitBody_NoStateCheck(m0, ok) ==
  IF dis_dev = NULL \/ dis_handle = NULL
  THEN [m |-> m0, atEnd |-> FALSE]
  ELSE IF load_discrete_state = GPU_DISABLE
  THEN [m |-> m0, atEnd |-> FALSE]
  ELSE [m |-> dis_dev_put(discrete_on(dis_dev_get(m0), ok)), atEnd |-> TRUE]

\* exit without the test of load_discrete_state.
ExitBody_NoLoadCheck(m0, ok) ==
  IF dis_dev = NULL \/ dis_handle = NULL
  THEN [m |-> m0, atEnd |-> FALSE]
  ELSE
    LET m1 == dis_dev_get(m0)
    IN  IF m1.ds = GPU_ENABLE
        THEN [m |-> m1, atEnd |-> FALSE]
        ELSE [m |-> dis_dev_put(discrete_on(m1, ok)), atEnd |-> TRUE]

ExitBody(m0, ok) ==
  IF dis_dev = NULL \/ dis_handle = NULL
  THEN [m |-> m0, atEnd |-> FALSE]
  ELSE IF load_discrete_state = GPU_DISABLE
  THEN [m |-> m0, atEnd |-> FALSE]
  ELSE
    LET m1 == dis_dev_get(m0)
    IN  IF m1.ds = GPU_ENABLE
        THEN [m |-> m1, atEnd |-> FALSE]
        ELSE [m |-> dis_dev_put(discrete_on(m1, ok)), atEnd |-> TRUE]

discrete_disabler_exit ==
  /\ phase = "loaded"
  /\ \E ok \in BOOLEAN :
       LET r == ExitBody(Enter("exit", dis_dev), ok)
       IN  /\ Commit(r.m)
           /\ registered' = IF r.atEnd /\ nb_call THEN FALSE ELSE registered
  /\ phase' = "exited"
  /\ UNCHANGED <<devices, hasParent, driver, dis_dev, dis_handle,
                 device_vendor, load_discrete_state, nb_call, oops, initRefused>>

\* A PM event after the module was unloaded with nb still on the chain: the
\* chain calls into freed module memory.  Either the stale handler code
\* still runs as compiled, or the kernel faults.
StaleEvent ==
  /\ phase = "exited"
  /\ registered
  /\ ~oops
  /\ \/ /\ \E e \in PmEvents, ok \in BOOLEAN :
            Commit(discrete_pm_handler(Enter(e, dis_dev), e, ok))
        /\ oops' = oops
     \/ /\ oops' = TRUE
        /\ UNCHANGED <<discrete_state, powered, usage, fwFailed, lastFw,
                       fwOrderBroken, last, prev>>
  /\ UNCHANGED <<phase, devices, hasParent, driver, dis_dev, dis_handle,
                 device_vendor, load_discrete_state, nb_call, registered,
                 initRefused>>

\* ------------------------------------------------------- environment
\* A driver (nouveau, nvidia) binds to or releases the discrete device
\* between two entry points of this module.
DriverBind ==
  /\ phase \in {"loaded", "exited"}
  /\ ~oops
  /\ ~driver
  /\ driver' = TRUE
  /\ UNCHANGED <<phase, devices, hasParent, powered, dis_dev, dis_handle,
                 device_vendor, discrete_state, load_discrete_state, nb_call,
                 registered, usage, fwFailed, oops, initRefused, lastFw,
                 fwOrderBroken, last, prev>>

DriverUnbind ==
  /\ phase \in {"loaded", "exited"}
  /\ ~oops
  /\ driver
  /\ driver' = FALSE
  /\ UNCHANGED <<phase, devices, hasParent, powered, dis_dev, dis_handle,
                 device_vendor, discrete_state, load_discrete_state, nb_call,
                 registered, usage, fwFailed, oops, initRefused, lastFw,
                 fwOrderBroken, last, prev>>

Next ==
  \/ discrete_disabler_init
  \/ PmEvent
  \/ discrete_disabler_exit
  \/ StaleEvent
  \/ DriverBind
  \/ DriverUnbind

Spec == Init /\ [][Next]_vars

\* ------------------------------------------------- the transitions alone
\* discrete_off and discrete_on applied to a loaded module in any cached
\* state and any hardware state, with the caller's guard held.
InitCalls ==
  /\ phase = "loaded"
  /\ devices \in {e \in Enumerations : Scan(e).dis_dev # NULL}
  /\ dis_dev = Scan(devices).dis_dev
  /\ dis_handle = Scan(devices).dis_handle
  /\ device_vendor = devices[dis_dev].vendor
  /\ hasParent \in BOOLEAN
  /\ powered \in BOOLEAN
  /\ driver \in BOOLEAN
  /\ discrete_state \in {GPU_UNCHANGED, GPU_DISABLE, GPU_ENABLE}
  /\ load_discrete_state \in {GPU_DISABLE, GPU_ENABLE}
  /\ nb_call = FALSE
  /\ registered = FALSE
  /\ usage = (IF hasParent THEN 1 ELSE 0)
  /\ fwFailed = FALSE
  /\ oops = FALSE
  /\ initRefused = FALSE
  /\ lastFw = "none"
  /\ fwOrderBroken = FALSE
  /\ last = NoTrace("none", discrete_state)
  /\ prev = [name |-> "none", before |-> discrete_state]

CallFrame ==
  UNCHANGED <<phase, devices, hasParent, driver, dis_dev, dis_handle,
              device_vendor, load_discrete_state, nb_call, registered,
              oops, initRefused>>

\* One call of discrete_off.
CallOff ==
  /\ \E ok \in BOOLEAN :
       Commit(discrete_off(Enter("discrete_off", dis_dev), ok))
  /\ CallFrame

\* discrete_off followed immediately by discrete_off.
CallOffTwice ==
  /\ \E ok1 \in BOOLEAN, ok2 \in BOOLEAN :
       Commit(discrete_off(
                discrete_off(Enter("discrete_off;discrete_off", dis_dev), ok1),
                ok2))
  /\ CallFrame

\* One call of discrete_on.
CallOn ==
  /\ \E ok \in BOOLEAN :
       Commit(discrete_on(Enter("discrete_on", dis_dev), ok))
  /\ CallFrame

NextCalls ==
  \/ CallOff
  \/ CallOffTwice
  \/ CallOn
  \/ DriverBind
  \/ DriverUnbind

SpecCalls == InitCalls /\ [][NextCalls]_vars

\* ------------------------------------------------------ discovery alone
\* Module load over longer enumerations of every kind of device the scan
\* tells apart: class, vendor, with or without ACPI companion.
ScanDevs ==
  [class : {PCI_CLASS_DISPLAY_VGA * 256, PCI_CLASS_DISPLAY_3D * 256,
            PCI_CLASS_DISPLAY_OTHER * 256, 131072},
   vendor : {PCI_VENDOR_ID_INTEL, PCI_VENDOR_ID_NVIDIA},
   acpi : BOOLEAN]

InitScan ==
  /\ phase = "start"
  /\ devices \in SeqsUpTo(ScanDevs, MaxScan)
  /\ hasParent \in BOOLEAN
  /\ powered \in BOOLEAN
  /\ driver \in BOOLEAN
  /\ dis_dev = NULL
  /\ dis_handle = NULL
  /\ device_vendor = VendorUnset
  /\ discrete_state = GPU_UNCHANGED
  /\ load_discrete_state = GPU_UNCHANGED
  /\ nb_call = FALSE
  /\ registered = FALSE
  /\ usage = 0
  /\ fwFailed = FALSE
  /\ oops = FALSE
  /\ initRefused = FALSE
  /\ lastFw = "none"
  /\ fwOrderBroken = FALSE
  /\ last = NoTrace("none", GPU_UNCHANGED)
  /\ prev = [name |-> "none", before |-> GPU_UNCHANGED]

SpecScan == InitScan /\ [][discrete_disabler_init]_vars

TypeOK ==
  /\ phase \in {"start", "loaded", "failed", "exited"}
  /\ discrete_state \in {GPU_UNCHANGED, GPU_DISABLE, GPU_ENABLE}
  /\ load_discrete_state \in {GPU_UNCHANGED, GPU_DISABLE, GPU_ENABLE}
  /\ usage \in 0..1
  /\ dis_dev \in 0..Len(devices)
\* =================================================================
\* Properties
\* =================================================================
\* The power state the hardware is in, as a PowerState value.
HwState == IF powered THEN GPU_ENABLE ELSE GPU_DISABLE

\* No entry point is ever in progress in a state: each action runs one to
\* completion.

\* C1: every entry point releases the power-domain guard as often as it
\* acquired it, so the module holds no keep-awake reference between entry
\* points and after exit.
C1_GuardBalanced == usage = 0 /\ last.gets = last.puts

\* C2: after exit has returned the notifier is no longer registered.
C2_UnregisteredAfterExit == phase = "exited" => ~registered

\* C3: when exit returns after a successful init and any sleep events, the
\* hardware is in the power state it had at load, provided every firmware
\* call took effect.
C3_RestoredOnUnload ==
  (phase = "exited" /\ last.name = "exit" /\ ~fwFailed)
    => HwState = load_discrete_state

\* C3 witness: exit after a sleep event powered the device on again.
C3_Witness ==
  /\ phase = "exited" /\ last.name = "exit" /\ ~fwFailed
  /\ prev.name \in PmEvents
  /\ last.fwOn = 1 /\ powered /\ load_discrete_state = GPU_ENABLE

\* C4: when the handler of a pre-suspend or pre-hibernate event has
\* returned and the state at load was Enabled, the device is powered on,
\* provided every firmware call took effect.
C4_PoweredBeforeSleep ==
  (last.name \in PrepareEvents /\ load_discrete_state = GPU_ENABLE /\ ~fwFailed)
    => powered

\* C4 witness: a pre-hibernate handler that had to power the device on.
C4_Witness ==
  /\ last.name = "PM_HIBERNATION_PREPARE" /\ load_discrete_state = GPU_ENABLE
  /\ ~fwFailed /\ last.before = GPU_DISABLE /\ last.fwOn = 1 /\ powered

\* C5: the notifier is never registered after an init whose discrete_off
\* was refused.
C5_NotRegisteredAfterRefusal == initRefused => ~registered

\* C6 as stated: with the driver flag set, discrete_off issues no firmware
\* call and CurrentState remains Enabled, for init and the handler alike.
C6_RefusedStaysEnabled ==
  (last.offInv > 0 /\ last.claimed)
    => (last.fwOff = 0 /\ discrete_state = GPU_ENABLE)

\* C6 amended: with the driver flag set, discrete_off issues no firmware
\* call and leaves CurrentState as it was on entry: Enabled in the
\* post-sleep handler, the initial value Unchanged in init.
C6_RefusedLeavesState ==
  (last.offInv > 0 /\ last.claimed)
    => /\ last.fwOff = 0
       /\ discrete_state = last.before
       /\ (last.name = "init" => discrete_state = GPU_UNCHANGED)
       /\ (last.name \in PostEvents => discrete_state = GPU_ENABLE)

\* C6 witness: a post-resume handler whose discrete_off was refused.
C6_Witness ==
  /\ last.name = "PM_POST_SUSPEND" /\ last.offInv = 1
  /\ last.claimed /\ last.refused /\ powered

\* C7 as stated: between entry points CurrentState equals the hardware
\* power state.
C7_StateIsHardware ==
  phase \in {"loaded", "exited"} => discrete_state = HwState

\* C7 amended: provided every firmware call took effect, CurrentState
\* equals the hardware power state whenever it is not Unchanged.
C7_StateIsHardwareOnceSet ==
  (~fwFailed /\ discrete_state # GPU_UNCHANGED) => discrete_state = HwState

\* C7 witness: the device is off again after a post-resume handler.
C7_Witness ==
  /\ last.name \in PostEvents /\ last.fwOff = 1 /\ ~fwFailed
  /\ discrete_state = GPU_DISABLE /\ ~powered

\* C8 as stated: an init that reads Enabled calls discrete_off once, leaves
\* CurrentState Disabled and the notifier registered.
C8_ScenarioA ==
  (last.name = "init" /\ phase = "loaded" /\ load_discrete_state = GPU_ENABLE)
    => (last.offInv = 1 /\ discrete_state = GPU_DISABLE /\ registered)

\* C8 amended: an init that reads Enabled calls discrete_off once; if the
\* device is not claimed by a driver, CurrentState becomes Disabled and the
\* notifier is registered when init returns.
C8_ScenarioAUnclaimed ==
  (last.name = "init" /\ phase = "loaded" /\ load_discrete_state = GPU_ENABLE)
    => /\ last.offInv = 1
       /\ ~last.claimed => (discrete_state = GPU_DISABLE /\ registered)

\* C8 witness: init found the device on and unclaimed and turned it off.
C8_Witness ==
  /\ last.name = "init" /\ phase = "loaded" /\ load_discrete_state = GPU_ENABLE
  /\ ~last.claimed /\ last.fwOff = 1 /\ discrete_state = GPU_DISABLE /\ registered

\* C9 as stated: a pre-suspend event with load state Enabled and
\* CurrentState Disabled makes one discrete_on call; the post-resume event
\* after it makes one discrete_off call and CurrentState is Disabled again.
C9_ScenarioC ==
  /\ (last.name = "PM_SUSPEND_PREPARE" /\ load_discrete_state = GPU_ENABLE
        /\ last.before = GPU_DISABLE)
       => last.onInv = 1
  /\ (last.name = "PM_POST_SUSPEND" /\ prev.name = "PM_SUSPEND_PREPARE"
        /\ load_discrete_state = GPU_ENABLE /\ prev.before = GPU_DISABLE)
       => (last.offInv = 1 /\ discrete_state = GPU_DISABLE)

\* C9 amended: the same, the second half provided every firmware call took
\* effect and no driver has claimed the device when the post-resume event
\* arrives.
C9_ScenarioCUnclaimed ==
  /\ (last.name = "PM_SUSPEND_PREPARE" /\ load_discrete_state = GPU_ENABLE
        /\ last.before = GPU_DISABLE)
       => last.onInv = 1
  /\ (last.name = "PM_POST_SUSPEND" /\ prev.name = "PM_SUSPEND_PREPARE"
        /\ load_discrete_state = GPU_ENABLE /\ prev.before = GPU_DISABLE
        /\ ~fwFailed /\ (last.offInv > 0 => ~last.claimed))
       => (last.offInv = 1 /\ last.fwOff = 1 /\ discrete_state = GPU_DISABLE)

\* C9 witness: a suspend/resume cycle that powered the device on and off.
C9_Witness ==
  /\ last.name = "PM_POST_SUSPEND" /\ prev.name = "PM_SUSPEND_PREPARE"
  /\ load_discrete_state = GPU_ENABLE /\ prev.before = GPU_DISABLE
  /\ ~fwFailed /\ last.fwOff = 1 /\ discrete_state = GPU_DISABLE /\ ~powered

\* C10 as stated: exit with CurrentState Disabled makes one discrete_on call
\* and one _ON firmware call; exit with CurrentState Enabled makes no
\* discrete_on call and no firmware call.
C10_ScenarioD ==
  /\ (last.name = "exit" /\ load_discrete_state = GPU_ENABLE
        /\ last.before = GPU_DISABLE)
       => (last.onInv = 1 /\ last.fwOn = 1)
  /\ (last.name = "exit" /\ last.before = GPU_ENABLE)
       => (last.onInv = 0 /\ last.fwOn = 0 /\ last.fwOff = 0)

\* C10 amended: exit with CurrentState Disabled makes one discrete_on call,
\* and one _ON firmware call provided every firmware call took effect; exit
\* with CurrentState Enabled makes no discrete_on call and no firmware call.
C10_ScenarioDEffective ==
  /\ (last.name = "exit" /\ load_discrete_state = GPU_ENABLE
        /\ last.before = GPU_DISABLE)
       => (last.onInv = 1 /\ (~fwFailed => last.fwOn = 1))
  /\ (last.name = "exit" /\ last.before = GPU_ENABLE)
       => (last.onInv = 0 /\ last.fwOn = 0 /\ last.fwOff = 0)

\* C10 witness: exit right after init turned the device off.
C10_Witness ==
  /\ last.name = "exit" /\ prev.name = "init" /\ last.before = GPU_DISABLE
  /\ last.onInv = 1 /\ last.fwOn = 1 /\ powered
\* C11: when init read the device as Disabled, nothing is ever done: the
\* notifier is not registered, no firmware call is issued over the whole
\* lifetime, CurrentState keeps its initial value, discrete_off is never
\* entered and exit takes no guard and reads nothing.
C11_ScenarioB ==
  load_discrete_state = GPU_DISABLE
    => /\ ~registered
       /\ lastFw = "none"
       /\ discrete_state = GPU_UNCHANGED
       /\ last.name \in {"init", "exit"}
       /\ last.offInv = 0 /\ last.onInv = 0
       /\ usage = 0
       /\ last.name = "exit" => (last.gets = 0 /\ last.puts = 0 /\ last.reads = 0)

\* C11 witness: the module was loaded on a powered-off device behind a
\* bridge and unloaded again.
C11_Witness ==
  /\ phase = "exited" /\ load_discrete_state = GPU_DISABLE /\ hasParent
  /\ last.name = "exit" /\ prev.name = "init" /\ ~powered

\* A device the scan can take as the discrete one: a display device with
\* an ACPI companion whose vendor is not the integrated one.
IsDiscreteCandidate(d) ==
  /\ IsDisplayClass(d.class \div 256)
  /\ d.acpi
  /\ d.vendor # PCI_VENDOR_ID_INTEL

NoDiscreteCandidate ==
  \A i \in 1..Len(devices) : ~IsDiscreteCandidate(devices[i])

\* C12: when the enumeration holds no discrete device, init returns -ENODEV
\* and has issued no firmware call, taken no guard, read no state and
\* registered no notifier.
C12_NoDeviceFound ==
  (phase # "start" /\ NoDiscreteCandidate)
    => /\ phase = "failed"
       /\ dis_dev = NULL
       /\ lastFw = "none" /\ last.fwOff = 0 /\ last.fwOn = 0
       /\ last.gets = 0 /\ usage = 0
       /\ last.reads = 0 /\ load_discrete_state = GPU_UNCHANGED
       /\ ~registered /\ ~nb_call

\* C12 witness: init failed on an enumeration that holds an integrated
\* display device only.
C12_Witness ==
  /\ phase = "failed" /\ last.name = "init" /\ Len(devices) = MaxDevs
  /\ \E i \in 1..Len(devices) :
       /\ IsDisplayClass(devices[i].class \div 256)
       /\ devices[i].acpi
       /\ devices[i].vendor = PCI_VENDOR_ID_INTEL
\* C13 as stated: discrete_off twice in a row on an unclaimed, powered
\* device issues exactly one _OFF call in total and leaves CurrentState
\* Disabled.
C13_DisableIdempotent ==
  (last.name = "discrete_off;discrete_off" /\ ~last.claimed /\ last.pwBefore)
    => (last.offInv = 2 /\ last.fwOff = 1 /\ discrete_state = GPU_DISABLE)

\* C13 amended: the same, provided the firmware calls take effect; the
\* second discrete_off re-reads the hardware, and issues _OFF again when
\* the first _OFF left the device on.
C13_DisableIdempotentEffective ==
  (last.name = "discrete_off;discrete_off" /\ ~last.claimed /\ last.pwBefore)
    => /\ last.offInv = 2
       /\ discrete_state = GPU_DISABLE
       /\ last.fwOff \in {1, 2}
       /\ ~fwFailed => (last.fwOff = 1 /\ ~powered)

\* C13 witness: two calls in a row, one _OFF, the device is off.
C13_Witness ==
  /\ last.name = "discrete_off;discrete_off" /\ ~last.claimed /\ last.pwBefore
  /\ ~fwFailed /\ last.fwOff = 1 /\ last.reads = 2 /\ ~powered
  /\ discrete_state = GPU_DISABLE

\* C14: discrete_on called while the device reads Enabled issues no
\* firmware call and changes nothing, whatever discrete_state holds.
C14_EnableOnEnabled ==
  (last.name = "discrete_on" /\ last.pwBefore)
    => /\ last.onInv = 1
       /\ last.fwOn = 0 /\ last.fwOff = 0
       /\ discrete_state = last.before
       /\ powered

\* C14 witness: discrete_on on a powered device whose cached state says
\* Disabled.
C14_Witness ==
  /\ last.name = "discrete_on" /\ last.pwBefore
  /\ last.before = GPU_DISABLE /\ last.fwOn = 0 /\ discrete_state = GPU_DISABLE
\* C15: an entry point whose guarded discrete_off was refused (init or the
\* post-sleep handler) has released the guard exactly once when it returns:
\* as often as it took it, and once for a device behind a bridge.
C15_ReleasedOnRefusal ==
  last.refused
    => /\ last.name \in {"init"} \cup PostEvents
       /\ last.gets = last.puts
       /\ last.puts = (IF hasParent THEN 1 ELSE 0)
       /\ (phase = "loaded" => usage = 0)

\* C15 witness: a post-resume handler behind a bridge was refused and put
\* the reference back.
C15_Witness ==
  /\ last.refused /\ last.name = "PM_POST_SUSPEND" /\ hasParent
  /\ last.gets = 1 /\ last.puts = 1 /\ usage = 0
\* A display device with an ACPI companion and the integrated vendor.
IsIntegratedCandidate(d) ==
  /\ IsDisplayClass(d.class \div 256)
  /\ d.acpi
  /\ d.vendor = PCI_VENDOR_ID_INTEL

\* Both an integrated and a discrete candidate are among the first k devices.
BothAmong(devs, k) ==
  /\ \E i \in 1..k : IsIntegratedCandidate(devs[i])
  /\ \E i \in 1..k : IsDiscreteCandidate(devs[i])

\* Where the scan stops: the first device at which both kinds have been
\* seen, the end of the enumeration if there is none.
StopIndex(devs) ==
  IF \E k \in 1..Len(devs) : BothAmong(devs, k)
  THEN CHOOSE k \in 1..Len(devs) :
         BothAmong(devs, k) /\ \A j \in 1..(k - 1) : ~BothAmong(devs, j)
  ELSE Len(devs)

\* The last discrete candidate up to where the scan stops, NULL if none.
ExpectedDiscrete(devs) ==
  LET seen == {i \in 1..StopIndex(devs) : IsDiscreteCandidate(devs[i])}
  IN  IF seen = {} THEN NULL
      ELSE CHOOSE i \in seen : \A j \in seen : j <= i

\* C16: after init, dis_dev is the last display device with an ACPI handle
\* and a non-integrated vendor among the devices enumerated up to the first
\* point where both an integrated and a discrete device were found; devices
\* that are no display or have no handle are skipped, and init fails
\* exactly when there is no such device.
C16_LastCandidateBeforeStop ==
  phase # "start"
    => /\ dis_dev = ExpectedDiscrete(devices)
       /\ dis_handle = dis_dev
       /\ (phase = "failed") = (dis_dev = NULL)
       /\ dis_dev # NULL
            => /\ IsDiscreteCandidate(devices[dis_dev])
               /\ device_vendor = devices[dis_dev].vendor
               /\ device_vendor # PCI_VENDOR_ID_INTEL

\* C16 witness: the scan stopped at the second device, with a further
\* discrete candidate behind it, after skipping nothing.
C16_Witness ==
  /\ phase = "loaded" /\ Len(devices) = 3
  /\ IsIntegratedCandidate(devices[1])
  /\ IsDiscreteCandidate(devices[2])
  /\ IsDiscreteCandidate(devices[3])
  /\ dis_dev = 2
\* C17: no entry point reads the configuration space or calls the firmware
\* of a device behind a bridge while the module holds no reference on the
\* bridge.
C17_AccessOnlyGuarded ==
  /\ ~last.bare
  /\ (hasParent /\ last.reads + last.fwOff + last.fwOn > 0) => last.gets = 1

\* C17 witness: exit of a module behind a bridge read the state and called
\* _ON with the guard held.
C17_Witness ==
  /\ hasParent /\ last.name = "exit" /\ last.reads = 1 /\ last.fwOn = 1
  /\ last.gets = 1 /\ ~last.bare

\* The handler has nothing to do for event e with discrete_state ds.
HandlerIdle(e, ds) ==
  \/ e = "PM_RESTORE_PREPARE"
  \/ /\ e \in PrepareEvents
     /\ ~(load_discrete_state = GPU_ENABLE /\ ds = GPU_DISABLE)
  \/ /\ e \in PostEvents
     /\ ~(load_discrete_state = GPU_ENABLE /\ ds = GPU_ENABLE)

\* A step that is one invocation of the handler for event e.
HandlerStep(e) ==
  /\ e \in PmEvents
  /\ last'.name = e
  /\ <<last, prev>>' # <<last, prev>>

\* C18: a handler invocation that has nothing to do (pre-restore, a
\* pre-sleep event unless the load state is Enabled and CurrentState
\* Disabled, a post-sleep event unless both are Enabled) leaves
\* CurrentState, LoadTimeState, the hardware state and the guard count
\* unchanged and issues no firmware call.
C18_HandlerFrame ==
  [][\A e \in PmEvents :
       (HandlerStep(e) /\ HandlerIdle(e, discrete_state))
         => /\ UNCHANGED <<discrete_state, load_discrete_state, powered,
                           usage, lastFw>>
            /\ last'.fwOn = 0 /\ last'.fwOff = 0
            /\ last'.gets = 0 /\ last'.puts = 0 /\ last'.reads = 0]_vars

\* C18 witness: a pre-restore event arrived while the device was kept off
\* and the handler did nothing.
C18_Witness ==
  /\ last.name = "PM_RESTORE_PREPARE"
  /\ load_discrete_state = GPU_ENABLE /\ last.before = GPU_DISABLE
  /\ discrete_state = GPU_DISABLE /\ ~powered
  /\ last.onInv = 0 /\ last.fwOn = 0 /\ last.gets = 0

\* C19: as long as every firmware call took effect, the first firmware
\* call is _OFF and no firmware call is of the same kind as the one before
\* it.
C19_FirmwareCallsAlternate == ~fwFailed => ~fwOrderBroken

\* C19 witness: _OFF at init, _ON before suspend, _OFF after resume, _ON at
\* exit.
C19_Witness ==
  /\ ~fwFailed /\ ~fwOrderBroken
  /\ phase = "exited" /\ last.name = "exit" /\ last.fwOn = 1
  /\ prev.name \in PostEvents /\ prev.before = GPU_ENABLE
  /\ lastFw = "_ON"

\* C20: after an init whose discrete_off was refused, CurrentState stays
\* Unchanged and no firmware call is ever issued, by any event or by exit,
\* whether or not the driver has released the device.
C20_RefusedInitInert ==
  initRefused
    => /\ discrete_state = GPU_UNCHANGED
       /\ lastFw = "none"
       /\ last.fwOff = 0 /\ last.fwOn = 0
       /\ powered

\* C20 witness: after a refused init the driver released the device, a
\* post-resume event came and the module was unloaded.
C20_Witness ==
  /\ initRefused /\ ~driver /\ phase = "exited"
  /\ last.name = "exit" /\ prev.name \in PostEvents
  /\ last.onInv = 1 /\ last.fwOn = 0
====
